---- MODULE Spec2Model ----
(***************************************************************************)
(* Model of clang-tidy's misc CastCheck (CastCheck.cpp): the matcher       *)
(* catalog installed by registerMatchers and the textual rewrite done by   *)
(* check for one matched call expression.  Source text is modelled as      *)
(* character strings; the StringRef operations are modelled by what they   *)
(* do on the characters.                                                   *)
(***************************************************************************)
EXTENDS Integers, Sequences, FiniteSets, TLC

VARIABLES Matchers, Call, Result, diags, errs, out

vars == <<Matchers, Call, Result, diags, errs, out>>

(***************************************************************************)
(* Bounds of the enumerated call sites.                                    *)
(***************************************************************************)
\* largest run of blanks written before the operation part and after the
\* `template` keyword
MaxWs == 1

(***************************************************************************)
(* llvm::StringRef operations used by the check.                           *)
(***************************************************************************)
Min(S) == CHOOSE i \in S : \A j \in S : i <= j
Max(S) == CHOOSE i \in S : \A j \in S : i >= j

Drop(s, n) == SubSeq(s, n + 1, Len(s))

starts_with(s, p) == Len(s) >= Len(p) /\ SubSeq(s, 1, Len(p)) = p

Occurrences(s, p) ==
  {i \in 1..(Len(s) - Len(p) + 1) : SubSeq(s, i, i + Len(p) - 1) = p}

contains(s, p) == Occurrences(s, p) # {}

consume_front(s, p) == IF starts_with(s, p) THEN Drop(s, Len(p)) ELSE s

\* StringRef::rsplit(Separator): split on the last occurrence; when the
\* separator does not occur the result is (whole string, "").
rsplit(s, sep) ==
  IF Occurrences(s, sep) = {}
  THEN <<s, "">>
  ELSE LET i == Max(Occurrences(s, sep))
       IN <<SubSeq(s, 1, i - 1), Drop(s, i + Len(sep) - 1)>>

\* StringRef::trim(): default character set " \t\n\v\f\r"
IsWs(c) == c \in {" ", "\t", "\n", "\f", "\r"}

trim(s) ==
  LET keep == {i \in 1..Len(s) : ~IsWs(SubSeq(s, i, i))}
  IN IF keep = {} THEN "" ELSE SubSeq(s, Min(keep), Max(keep))

(***************************************************************************)
(* The anonymous-namespace helpers of CastCheck.cpp.                       *)
(***************************************************************************)
maybePrefixed(Func) == "llvm::" \o Func

\* transformObj without the empty-operation case
transformObj_AlwaysDeref(Obj, Function, IsArrow) ==
  IF IsArrow THEN "*" \o Obj ELSE Obj

transformObj(Obj, Function, IsArrow) ==
  IF IsArrow
  THEN IF trim(Function) = "" THEN Obj \o "*this" ELSE "*" \o Obj
  ELSE Obj

\* what transformObj writes to llvm::errs()
transformObjErrs(Obj, Function, IsArrow) ==
  IF IsArrow THEN "Func: " \o Function \o " and Obj: " \o Obj ELSE ""

transformFunction(Function, IsPointerUnion) ==
  LET F == trim(consume_front(Function, "template "))
  IN IF IsPointerUnion /\ contains(F, "dyn_cast")
        /\ ~contains(F, "dyn_cast_if_present")
     THEN maybePrefixed("dyn_cast_if_present" \o consume_front(F, "dyn_cast"))
     ELSE IF contains(F, "dyn_cast_or_null")
     THEN maybePrefixed("dyn_cast_if_present"
                        \o consume_front(F, "dyn_cast_or_null"))
     ELSE IF trim(F) = "" THEN "llvm::"
     ELSE maybePrefixed(F)

\* what transformFunction writes to llvm::errs()
transformFunctionErrs(Function) == "Transform func(" \o Function \o ")"

splitCall(CallText, IsArrow) ==
  IF contains(CallText, "...") /\ contains(CallText, "isa")
  THEN LET p == IF IsArrow THEN rsplit(CallText, "->isa")
                           ELSE rsplit(CallText, ".isa")
       IN <<p[1], "isa" \o p[2]>>
  ELSE IF IsArrow THEN rsplit(CallText, "->") ELSE rsplit(CallText, ".")

(***************************************************************************)
(* The matcher catalog: CastCheck::registerMatchers.                       *)
(***************************************************************************)
\* the four matchers one AddMatchers call installs, in the order it adds them
AddMatchers(BaseType, CalleeBind) ==
  << [BaseType |-> BaseType, Name |-> "cast", CalleeBind |-> CalleeBind],
     [BaseType |-> BaseType, Name |-> "dyn_cast", CalleeBind |-> CalleeBind],
     [BaseType |-> BaseType, Name |-> "isa", CalleeBind |-> CalleeBind],
     [BaseType |-> BaseType, Name |-> "dyn_cast_or_null",
      CalleeBind |-> CalleeBind] >>

\* the catalog with the pointer-union family bound like the other families
RegisteredMatchers_SameBinding ==
  AddMatchers("::mlir::Attribute", "Callee")
  \o AddMatchers("::mlir::Op", "Callee")
  \o AddMatchers("::mlir::Type", "Callee")
  \o AddMatchers("::mlir::Value", "Callee")
  \o AddMatchers("::mlir::OpFoldResult", "Callee")
  \o AddMatchers("::llvm::PointerUnion", "Callee")

RegisteredMatchers ==
  AddMatchers("::mlir::Attribute", "Callee")
  \o AddMatchers("::mlir::Op", "Callee")
  \o AddMatchers("::mlir::Type", "Callee")
  \o AddMatchers("::mlir::Value", "Callee")
  \o AddMatchers("::mlir::OpFoldResult", "Callee")
  \o AddMatchers("::llvm::PointerUnion", "PUCallee")

\* callExpr(callee(memberExpr(hasDeclaration(namedDecl(allOf(
\*   hasUnderlyingDecl(matchesName("^<BaseType>")), hasName(<Name>)))))))
MatcherMatches(m, c) ==
  /\ starts_with(c.Base \o "::" \o c.Name, m.BaseType)
  /\ c.Name = m.Name

(***************************************************************************)
(* Call expressions of the translation unit the traversal may visit.       *)
(***************************************************************************)
Blanks(n) == SubSeq("          ", 1, n)

Receivers == {"x", "a.b", "p->q", "disable(xs...)"}

MemberNames == {"cast", "dyn_cast", "dyn_cast_or_null", "isa", "getType"}

TemplateArgs ==
  {"<Foo>", "<Foo, Bar>", "<Ts...>", "<dyn_cast_t>", "<dyn_cast_or_null_t>",
   "<dyn_cast_if_present_t>", "<decltype(a.b)>", "<decltype(p->q)>"}

\* class (qualified name) declaring the called member
DeclBases ==
  {"::mlir::Attribute", "::mlir::Op", "::mlir::Type", "::mlir::Value",
   "::mlir::OpFoldResult", "::llvm::PointerUnion", "::other::Thing"}

TemplateKeywords ==
  {""} \cup {"template" \o Blanks(n) : n \in 1..MaxWs} \cup {"template\t"}

\* member calls written with an explicit object expression
ExplicitCalls ==
  [recv : Receivers, IsArrow : BOOLEAN, pre : {Blanks(n) : n \in 0..MaxWs},
   kw : TemplateKeywords, Name : MemberNames, targs : TemplateArgs,
   Base : DeclBases, implicit : {FALSE}]

\* member calls on the implicit `this` (inside a class): no object text, and
\* MemberExpr::isArrow() is true
ImplicitCalls ==
  [recv : {""}, IsArrow : {TRUE}, pre : {""}, kw : {""}, Name : MemberNames,
   targs : TemplateArgs, Base : DeclBases, implicit : {TRUE}]

CallSites == ExplicitCalls \cup ImplicitCalls

AccessToken(c) == IF c.implicit THEN "" ELSE IF c.IsArrow THEN "->" ELSE "."

\* Lexer::getSourceText over the char range of the call's source range: the
\* text of the call up to, and excluding, its closing parenthesis
SourceText(c) ==
  c.recv \o AccessToken(c) \o c.pre \o c.kw \o c.Name \o c.targs \o "("

(***************************************************************************)
(* The host traversal (MatchFinder): which installed matchers call back    *)
(* for a call expression.  Ties between matchers are broken by catalog     *)
(* order: the first registered matcher that matches is the one that fires. *)
(***************************************************************************)
\* a traversal without the tie-break: every matcher that matches fires
Firing_EveryMatch(ms, c) ==
  LET hits == {i \in 1..Len(ms) : MatcherMatches(ms[i], c)}
      RECURSIVE upto(_)
      upto(n) ==
        IF n = 0 THEN <<>>
        ELSE IF n \in hits
             THEN Append(upto(n - 1),
                         [Call |-> c, matcher |-> n,
                          bind |-> ms[n].CalleeBind])
             ELSE upto(n - 1)
  IN upto(Len(ms))

Firing(ms, c) ==
  LET hits == {i \in 1..Len(ms) : MatcherMatches(ms[i], c)}
  IN IF hits = {} THEN <<>>
     ELSE << [Call |-> c, matcher |-> Min(hits),
              bind |-> ms[Min(hits)].CalleeBind] >>

(***************************************************************************)
(* State.                                                                  *)
(*   Matchers  the matchers installed in the MatchFinder                   *)
(*   Call      the call expression the traversal is at (<<>> or <<c>>)     *)
(*   Result    the MatchResults whose callback is still to run             *)
(*   diags     diagnostics emitted for Call                                *)
(*   errs      text written to llvm::errs() while the traversal is at Call *)
(*   out       the locals of the last run of check (<<>> or <<record>>)    *)
(***************************************************************************)
Init ==
  /\ Matchers = <<>>
  /\ Call = <<>>
  /\ Result = <<>>
  /\ diags = <<>>
  /\ errs = ""
  /\ out = <<>>

registerMatchers ==
  /\ Matchers = <<>>
  /\ Matchers' = RegisteredMatchers
  /\ UNCHANGED <<Call, Result, diags, errs, out>>

\* the traversal reaches the next call expression and evaluates the matchers
Visit ==
  /\ Matchers # <<>>
  /\ Call = <<>>
  /\ \E c \in CallSites :
       /\ Call' = <<c>>
       /\ Result' = Firing(Matchers, c)
  /\ UNCHANGED <<Matchers, diags, errs, out>>

\* the callbacks for the call expression have run and the traversal moves on;
\* the records handed to the diagnostic engine and the text on the error
\* stream are from here on tracked for the next call expression
Leave ==
  /\ Call # <<>>
  /\ Result = <<>>
  /\ Call' = <<>>
  /\ diags' = <<>>
  /\ errs' = ""
  /\ out' = <<>>
  /\ UNCHANGED <<Matchers, Result>>

DiagMessage ==
  "Casting call is using methods instead of functions https://mlir.llvm.org/deprecation/"

\* CastCheck::printFixIt: one diagnostic at the start of the call with one
\* replacement of the call's source range
printFixIt(c, ReplacementString) ==
  [at |-> c, message |-> DiagMessage, fixits |-> <<ReplacementString>>]

\* CastCheck::check for one MatchResult
check ==
  /\ Result # <<>>
  /\ LET R == Head(Result)
         c == R.Call
         HasCallee == R.bind = "Callee"
         IsPointerUnion == ~HasCallee
         HasPUCallee == R.bind = "PUCallee"
         asserted == HasCallee \/ HasPUCallee
         Src == SourceText(c)
         IsArrow == c.IsArrow
         sp == splitCall(Src, IsArrow)
         Obj == transformObj(sp[1], sp[2], IsArrow)
         Function == transformFunction(sp[2], IsPointerUnion)
         dst == Function \o Obj \o ")"
     IN IF asserted
        THEN /\ diags' = Append(diags, printFixIt(c, dst))
             /\ errs' = errs \o transformObjErrs(sp[1], sp[2], IsArrow)
                             \o transformFunctionErrs(sp[2])
             /\ out' = << [aborted |-> FALSE, matcher |-> R.matcher,
                          IsPointerUnion |-> IsPointerUnion, Src |-> Src,
                          splitObj |-> sp[1], splitFunction |-> sp[2],
                          Obj |-> Obj, Function |-> Function, dst |-> dst] >>
        ELSE \* the assert on the member-access binding fails: abort
             /\ out' = << [aborted |-> TRUE, matcher |-> R.matcher,
                          IsPointerUnion |-> IsPointerUnion, Src |-> "",
                          splitObj |-> "", splitFunction |-> "",
                          Obj |-> "", Function |-> "", dst |-> ""] >>
             /\ UNCHANGED <<diags, errs>>
  /\ Result' = Tail(Result)
  /\ UNCHANGED <<Matchers, Call>>

Next ==
  \/ registerMatchers
  \/ Visit
  \/ check
  \/ Leave

Spec == Init /\ [][Next]_vars

(***************************************************************************)
(* Vocabulary of the properties.                                           *)
(***************************************************************************)
\* check has run to completion for the call expression the traversal is at
Checked == out # <<>> /\ ~out[1].aborted

\* the text before the last occurrence of sep in s is a (all of s when sep
\* does not occur), and the text after it is b
IsLastSplit(s, sep, a, b) ==
  IF \E i \in 1..Len(s) : starts_with(Drop(s, i - 1), sep)
  THEN /\ s = a \o sep \o b
       /\ \A i \in 1..Len(b) : ~starts_with(Drop(b, i - 1), sep)
  ELSE a = s /\ b = ""

\* the operation part handed to transformFunction is the bare operation
\* name followed by its template arguments and the opening parenthesis
CleanOperationPart ==
  out[1].splitFunction = Call[1].Name \o Call[1].targs \o "("

\* the base types registerMatchers is documented to cover
CoveredBases ==
  {"::mlir::Attribute", "::mlir::Op", "::mlir::Type", "::mlir::Value",
   "::mlir::OpFoldResult", "::llvm::PointerUnion"}

\* a call expression the check is meant to report
Qualifies(c) ==
  /\ c.Name \in {"cast", "dyn_cast", "dyn_cast_or_null", "isa"}
  /\ \E b \in CoveredBases : starts_with(c.Base \o "::" \o c.Name, b)

\* the replacement the check builds for call expression c
ReplacementOf(c, IsPointerUnion) ==
  LET sp == splitCall(SourceText(c), c.IsArrow)
  IN transformFunction(sp[2], IsPointerUnion)
       \o transformObj(sp[1], sp[2], c.IsArrow) \o ")"

(***************************************************************************)
(* C1.  A call matched through the pointer-union family whose operation is *)
(* dyn_cast or dyn_cast_or_null resolves to llvm::dyn_cast_if_present      *)
(* followed by the unchanged template arguments and parenthesis.  (Stated  *)
(* for template arguments that do not themselves spell a cast name.)       *)
(***************************************************************************)
C1_PointerUnionRenamed ==
  (/\ Checked
   /\ out[1].IsPointerUnion
   /\ Call[1].Name \in {"dyn_cast", "dyn_cast_or_null"}
   /\ ~contains(Call[1].targs, "dyn_cast")
   /\ CleanOperationPart)
  => out[1].Function = "llvm::dyn_cast_if_present" \o Call[1].targs \o "("

(***************************************************************************)
(* C2.  A call whose operation part begins with the template keyword, with *)
(* any blanks around it, gets the replacement of the same call written     *)
(* without the keyword.  (Stated for calls that, written without the       *)
(* keyword, are split at their member access.)                             *)
(***************************************************************************)
C2_TemplateKeywordStripped ==
  LET c0 == [Call[1] EXCEPT !.kw = ""]
  IN (/\ Checked
      /\ Call[1].kw # ""
      /\ splitCall(SourceText(c0), c0.IsArrow)[1] = c0.recv)
     => out[1].dst = ReplacementOf(c0, out[1].IsPointerUnion)

(***************************************************************************)
(* C3.  splitCall splits on the compound token (.isa / ->isa) exactly when *)
(* the operation is isa and the call text contains an ellipsis; every      *)
(* other call is split on the last plain . or ->.                          *)
(***************************************************************************)
C3_CompoundSplitOnlyForVariadicIsa ==
  Checked =>
    LET tok == IF Call[1].IsArrow THEN "->" ELSE "."
        o == out[1]
    IN IF Call[1].Name = "isa" /\ contains(o.Src, "...")
       THEN /\ starts_with(o.splitFunction, "isa")
            /\ IsLastSplit(o.Src, tok \o "isa", o.splitObj,
                           Drop(o.splitFunction, 3))
       ELSE IsLastSplit(o.Src, tok, o.splitObj, o.splitFunction)

(***************************************************************************)
(* C4.  For a dot call of a fixed-arity operation the replacement is       *)
(* <name>(<receiver>), the receiver being the text before the last dot of  *)
(* the call text, unchanged.                                               *)
(***************************************************************************)
C4_DotReceiverUnchanged ==
  (/\ Checked
   /\ ~Call[1].IsArrow
   /\ ~(Call[1].Name = "isa" /\ contains(out[1].Src, "...")))
  => /\ \E b \in {Drop(out[1].Src, i) : i \in 0..Len(out[1].Src)} :
          IsLastSplit(out[1].Src, ".", out[1].Obj, b)
     /\ out[1].dst = out[1].Function \o out[1].Obj \o ")"

(***************************************************************************)
(* C5.  For an arrow call the receiver placed in the parentheses is * then *)
(* the text before the last -> of the call text.  (Stated for call texts   *)
(* that hold a -> outside their template arguments.)                       *)
(***************************************************************************)
C5_ArrowReceiverDereferenced ==
  (/\ Checked
   /\ Call[1].IsArrow
   /\ ~Call[1].implicit
   /\ ~contains(Call[1].targs, "->"))
  => /\ starts_with(out[1].Obj, "*")
     /\ \E b \in {Drop(out[1].Src, i) : i \in 0..Len(out[1].Src)} :
          IsLastSplit(out[1].Src, "->", Drop(out[1].Obj, 1), b)

C7_NoRenameOutsidePointerUnion ==
  (/\ Checked
   /\ (~out[1].IsPointerUnion \/ Call[1].Name \in {"cast", "isa"})
   /\ CleanOperationPart)
  => out[1].Function = "llvm::" \o Call[1].Name \o Call[1].targs \o "("

(***************************************************************************)
(* C8.  A run of check emits its one diagnostic and changes nothing else:  *)
(* nothing is written to the standard error stream.                        *)
(***************************************************************************)
C8_CheckWritesOnlyTheDiagnostic ==
  [][check => (/\ errs' = errs
               /\ Len(diags') = Len(diags) + 1
               /\ UNCHANGED <<Matchers, Call>>)]_vars

(***************************************************************************)
(* C9.  When the split leaves an operation part that is empty after        *)
(* trimming, the receiver part is the whole call text, the resolved name   *)
(* is exactly llvm::, and for an arrow call the receiver text is the split *)
(* receiver with *this appended, so the replacement is                     *)
(* llvm:: + call text + *this + ).                                         *)
(***************************************************************************)
C9_EmptyOperationPart ==
  (Checked /\ trim(out[1].splitFunction) = "")
  => /\ out[1].splitObj = out[1].Src
     /\ out[1].Function = "llvm::"
     /\ Call[1].IsArrow =>
          /\ out[1].Obj = out[1].splitObj \o "*this"
          /\ out[1].dst = "llvm::" \o out[1].Src \o "*this" \o ")"

C9_Witness ==
  /\ Checked
  /\ trim(out[1].splitFunction) = ""
  /\ Call[1].implicit /\ Call[1].IsArrow
  /\ out[1].Src = "cast<Foo>("
  /\ out[1].dst = "llvm::cast<Foo>(*this)"

(***************************************************************************)
(* C10.  Every installed matcher binds the member access under Callee or   *)
(* PUCallee, so the assertion in check holds in every run of check and a   *)
(* replacement is emitted; IsPointerUnion is true exactly when the matcher *)
(* that fired is one registered for ::llvm::PointerUnion.                  *)
(***************************************************************************)
C10_BindingInvariant ==
  /\ \A i \in 1..Len(Matchers) :
       Matchers[i].CalleeBind \in {"Callee", "PUCallee"}
  /\ out # <<>> =>
       /\ ~out[1].aborted
       /\ Len(diags) = 1
       /\ out[1].IsPointerUnion
            <=> (Matchers[out[1].matcher].BaseType = "::llvm::PointerUnion")

C10_Witness ==
  /\ Checked
  /\ out[1].IsPointerUnion
  /\ Matchers[out[1].matcher].BaseType = "::llvm::PointerUnion"
  /\ Len(diags) = 1

====
